---------------------------- MODULE Spec2Model ----------------------------
(***************************************************************************)
(* Model of the Lazy C editor add-on (src/src/extension.ts): the           *)
(* semicolon Classifier (shouldAddSemicolon), the prototype Synthesizer    *)
(* (autoGeneratePrototypes) and the event wiring around them (change,      *)
(* save, open/create handlers, timers and the isProcessingChange guard).   *)
(*                                                                         *)
(* Text is modelled character by character: a string is a sequence of      *)
(* one-character strings, a document is the sequence of its lines, and the *)
(* regular expressions of the source are values interpreted by Ends.       *)
(***************************************************************************)
EXTENDS Integers, Sequences, FiniteSets, TLC

VARIABLES
    doc,                 \* the TextDocument: the sequence of its lines
    isProcessingChange,  \* extension.ts:66
    prototypeCheckTimer, \* extension.ts:67: "unset", "pending", "fired" or "cleared"
    protoTimers,         \* number of 1500 ms timers (line 149) set and neither fired nor cleared
    activeIsDoc,         \* vscode.window.activeTextEditor.document === document
    activated,           \* the handlers registered by activate are subscribed
    semiTimers,          \* pending setTimeout(addSemicolonIfNeeded, 10), oldest first
    resetTimers,         \* pending setTimeout(() => isProcessingChange = false, ..)
    tasks,               \* timers and async functions waiting to run or resume
    history,             \* what the last step did (observation only)
    budget               \* user events still allowed by the bounds

vars == <<doc, isProcessingChange, prototypeCheckTimer, protoTimers, activeIsDoc,
          activated, semiTimers, resetTimers, tasks, history, budget>>

wiring == <<isProcessingChange, prototypeCheckTimer, protoTimers, activeIsDoc, activated,
            semiTimers, resetTimers, tasks, budget>>

-----------------------------------------------------------------------------
(* Characters and strings *)

Lower == {"a", "b", "c", "d", "e", "f", "g", "h", "i", "j", "k", "l", "m",
          "n", "o", "p", "q", "r", "s", "t", "u", "v", "w", "x", "y", "z"}
Upper == {"A", "B", "C", "D", "E", "F", "G", "H", "I", "J", "K", "L", "M",
          "N", "O", "P", "Q", "R", "S", "T", "U", "V", "W", "X", "Y", "Z"}
Digit == {"0", "1", "2", "3", "4", "5", "6", "7", "8", "9"}
\* \w of a JavaScript regular expression
WordChar == Lower \cup Upper \cup Digit \cup {"_"}
\* \s of a JavaScript regular expression, and what trim() strips (the ASCII part)
Space == {" ", "\t", "\n", "\r"}

NL == "\n"

IsPrefixAt(w, s, p) ==
    /\ p + Len(w) - 1 <= Len(s)
    /\ \A i \in 1..Len(w) : s[p + i - 1] = w[i]

\* String.prototype.startsWith / endsWith
startsWith(s, w) == IsPrefixAt(w, s, 1)
endsWith(s, w) == Len(w) <= Len(s) /\ IsPrefixAt(w, s, Len(s) - Len(w) + 1)

\* String.prototype.trimEnd / trimStart / trim
RECURSIVE trimEnd(_)
trimEnd(s) ==
    IF s # <<>> /\ s[Len(s)] \in Space THEN trimEnd(SubSeq(s, 1, Len(s) - 1)) ELSE s

RECURSIVE trimStart(_)
trimStart(s) ==
    IF s # <<>> /\ s[1] \in Space THEN trimStart(Tail(s)) ELSE s

trim(s) == trimEnd(trimStart(s))

\* Array.prototype.join('\n')
RECURSIVE join(_)
join(ls) ==
    IF ls = <<>> THEN <<>>
    ELSE IF Len(ls) = 1 THEN ls[1]
    ELSE ls[1] \o <<NL>> \o join(Tail(ls))

\* String.prototype.split('\n'): the empty string splits into one empty line
RECURSIVE splitFrom(_, _)
splitFrom(s, cur) ==
    IF s = <<>> THEN <<cur>>
    ELSE IF s[1] = NL THEN <<cur>> \o splitFrom(Tail(s), <<>>)
    ELSE splitFrom(Tail(s), Append(cur, s[1]))

split(s) == splitFrom(s, <<>>)

-----------------------------------------------------------------------------
(* Regular expressions: a value per construct, and the positions a match  *)
(* starting at one of the positions P can end at (all backtracking        *)
(* alternatives at once).  Position p is "before character p".            *)

Cls(cs) == [t |-> "cls", cs |-> cs]          \* [abc], \w, \s
NCls(cs) == [t |-> "ncls", cs |-> cs]        \* [^abc]
Cat(rs) == [t |-> "cat", rs |-> rs]          \* r1 r2 ...
Alt(rs) == [t |-> "alt", rs |-> rs]          \* r1 | r2 | ...
Star(r) == [t |-> "star", r |-> r]           \* r*
Plus(r) == Cat(<<r, Star(r)>>)               \* r+
Bol == [t |-> "bol"]                         \* ^ (no m flag)
Eol == [t |-> "eol"]                         \* $ (no m flag)
WordB == [t |-> "wordb"]                     \* \b
NotAhead(r) == [t |-> "notahead", r |-> r]   \* (?!r)
Lit(w) == Cat([i \in DOMAIN w |-> Cls({w[i]})])
Words(ws) == Alt([i \in DOMAIN ws |-> Lit(ws[i])])
W == Cls(WordChar)
S == Cls(Space)

IsWordAt(s, p) == p >= 1 /\ p <= Len(s) /\ s[p] \in WordChar

RECURSIVE Ends(_, _, _)
RECURSIVE StarEnds(_, _, _, _)
Ends(re, s, P) ==
    CASE re.t = "cls" -> {p + 1 : p \in {q \in P : q <= Len(s) /\ s[q] \in re.cs}}
      [] re.t = "ncls" -> {p + 1 : p \in {q \in P : q <= Len(s) /\ s[q] \notin re.cs}}
      [] re.t = "cat" ->
            IF P = {} \/ re.rs = <<>> THEN P
            ELSE Ends(Cat(Tail(re.rs)), s, Ends(Head(re.rs), s, P))
      [] re.t = "alt" -> UNION {Ends(re.rs[i], s, P) : i \in DOMAIN re.rs}
      [] re.t = "star" -> StarEnds(re.r, s, P, P)
      [] re.t = "bol" -> {p \in P : p = 1}
      [] re.t = "eol" -> {p \in P : p = Len(s) + 1}
      [] re.t = "wordb" -> {p \in P : IsWordAt(s, p - 1) # IsWordAt(s, p)}
      [] re.t = "notahead" -> {p \in P : Ends(re.r, s, {p}) = {}}
StarEnds(r, s, acc, frontier) ==
    IF frontier = {} THEN acc
    ELSE LET new == Ends(r, s, frontier) \ acc
         IN  StarEnds(r, s, acc \cup new, new)

\* RegExp.prototype.test: a match starting anywhere
Test(re, s) == Ends(re, s, 1..(Len(s) + 1)) # {}

-----------------------------------------------------------------------------
(* The Classifier: shouldAddSemicolon (extension.ts:243-279) *)

BasicTypes == <<<<"i", "n", "t">>, <<"v", "o", "i", "d">>, <<"c", "h", "a", "r">>, <<"f", "l", "o", "a", "t">>, <<"d", "o", "u", "b", "l", "e">>, <<"l", "o", "n", "g">>,
                <<"s", "h", "o", "r", "t">>, <<"u", "n", "s", "i", "g", "n", "e", "d">>, <<"s", "i", "g", "n", "e", "d">>>>

\* /[{},:\\]$/
reSpecialEnd == Cat(<<Cls({"{", "}", ",", ":", "\\"}), Eol>>)

\* /^#|^\/\/|^\/\*|\*\/$/
rePreprocOrComment ==
    Alt(<<Cat(<<Bol, Lit(<<"#">>)>>), Cat(<<Bol, Lit(<<"/", "/">>)>>),
          Cat(<<Bol, Lit(<<"/", "*">>)>>), Cat(<<Lit(<<"*", "/">>), Eol>>)>>)

\* /^\s*(if|else\s+if|else|while|for|do|switch)\b/
reControl ==
    Cat(<<Bol, Star(S),
          Alt(<<Lit(<<"i", "f">>), Cat(<<Lit(<<"e", "l", "s", "e">>), Plus(S), Lit(<<"i", "f">>)>>),
                Lit(<<"e", "l", "s", "e">>), Lit(<<"w", "h", "i", "l", "e">>), Lit(<<"f", "o", "r">>), Lit(<<"d", "o">>),
                Lit(<<"s", "w", "i", "t", "c", "h">>)>>),
          WordB>>)

\* /^\s*(case|default)\b/
reCaseDefault == Cat(<<Bol, Star(S), Words(<<<<"c", "a", "s", "e">>, <<"d", "e", "f", "a", "u", "l", "t">>>>), WordB>>)

\* /^\s*(int|void|char|float|double|long|short|unsigned|signed)\s+\w+\s*\([^)]*\)\s*$/
reFunctionSig ==
    Cat(<<Bol, Star(S), Words(BasicTypes), Plus(S), Plus(W), Star(S),
          Lit(<<"(">>), Star(NCls({")"})), Lit(<<")">>), Star(S), Eol>>)

\* /^\s*(struct|union|enum|typedef)\b/
reTypeDef ==
    Cat(<<Bol, Star(S), Words(<<<<"s", "t", "r", "u", "c", "t">>, <<"u", "n", "i", "o", "n">>, <<"e", "n", "u", "m">>, <<"t", "y", "p", "e", "d", "e", "f">>>>), WordB>>)

\* /^\s*[{}]\s*$/
reLoneBrace == Cat(<<Bol, Star(S), Cls({"{", "}"}), Star(S), Eol>>)

needsSemicolonPatterns ==
    << \* /^\s*(int|char|float|double|void|long|short|unsigned|signed|const|static|extern|auto|register)\s+\w+/
       Cat(<<Bol, Star(S),
             Words(<<<<"i", "n", "t">>, <<"c", "h", "a", "r">>, <<"f", "l", "o", "a", "t">>, <<"d", "o", "u", "b", "l", "e">>, <<"v", "o", "i", "d">>, <<"l", "o", "n", "g">>,
                     <<"s", "h", "o", "r", "t">>, <<"u", "n", "s", "i", "g", "n", "e", "d">>, <<"s", "i", "g", "n", "e", "d">>, <<"c", "o", "n", "s", "t">>, <<"s", "t", "a", "t", "i", "c">>,
                     <<"e", "x", "t", "e", "r", "n">>, <<"a", "u", "t", "o">>, <<"r", "e", "g", "i", "s", "t", "e", "r">>>>),
             Plus(S), Plus(W)>>),
       \* /\w+\s*=\s*[^=]/
       Cat(<<Plus(W), Star(S), Lit(<<"=">>), Star(S), NCls({"="})>>),
       \* /^\s*(return|break|continue|goto)\b/
       Cat(<<Bol, Star(S), Words(<<<<"r", "e", "t", "u", "r", "n">>, <<"b", "r", "e", "a", "k">>, <<"c", "o", "n", "t", "i", "n", "u", "e">>, <<"g", "o", "t", "o">>>>), WordB>>),
       \* /\w+\s*\([^)]*\)(?!\s*\{)/
       Cat(<<Plus(W), Star(S), Lit(<<"(">>), Star(NCls({")"})), Lit(<<")">>),
             NotAhead(Cat(<<Star(S), Lit(<<"{">>)>>))>>),
       \* /\w+\s*\[[^\]]*\]\s*=/
       Cat(<<Plus(W), Star(S), Lit(<<"[">>), Star(NCls({"]"})), Lit(<<"]">>), Star(S),
             Lit(<<"=">>)>>),
       \* /\*\w+\s*=/
       Cat(<<Lit(<<"*">>), Plus(W), Star(S), Lit(<<"=">>)>>) >>

\* needsSemicolonPatterns.some(pattern => pattern.test(trimmed))
MatchesNeedsPattern(trimmed) ==
    \E i \in DOMAIN needsSemicolonPatterns : Test(needsSemicolonPatterns[i], trimmed)

\* The exclusion tests of lines 250-266, in the order of the source
ExclusionRules ==
    <<reSpecialEnd, rePreprocOrComment, reControl, reCaseDefault, reFunctionSig,
      reTypeDef, reLoneBrace>>

MatchesExclusion(trimmed) ==
    \E i \in DOMAIN ExclusionRules : Test(ExclusionRules[i], trimmed)

\* shouldAddSemicolon without the test of line 247
shouldAddSemicolonNoEndTest(text) ==
    LET trimmed == trim(text)
    IN  IF MatchesExclusion(trimmed) THEN FALSE ELSE MatchesNeedsPattern(trimmed)

\* shouldAddSemicolon with the needs-terminator shapes tried before the exclusions
shouldAddSemicolonShapesFirst(text) ==
    LET trimmed == trim(text)
    IN  IF trimmed = <<>> \/ endsWith(trimmed, <<";">>) THEN FALSE
        ELSE IF MatchesNeedsPattern(trimmed) THEN TRUE
        ELSE FALSE

shouldAddSemicolon(text) ==
    LET trimmed == trim(text)
    IN  IF trimmed = <<>> \/ endsWith(trimmed, <<";">>) THEN FALSE
        ELSE IF Test(reSpecialEnd, trimmed) THEN FALSE
        ELSE IF Test(rePreprocOrComment, trimmed) THEN FALSE
        ELSE IF Test(reControl, trimmed) THEN FALSE
        ELSE IF Test(reCaseDefault, trimmed) THEN FALSE
        ELSE IF Test(reFunctionSig, trimmed) THEN FALSE
        ELSE IF Test(reTypeDef, trimmed) THEN FALSE
        ELSE IF Test(reLoneBrace, trimmed) THEN FALSE
        ELSE MatchesNeedsPattern(trimmed)

-----------------------------------------------------------------------------
(* The Synthesizer: the pure part of autoGeneratePrototypes                *)
(* (extension.ts:291-342).  Line indices are zero-based as in the source;  *)
(* lines[i] of the source is lines[i + 1] here.                            *)

\* document.getText(): the lines joined by the end-of-line sequence (LF documents)
getText(d) == join(d)

\* The capture groups of String.prototype.match for a pattern given as
\* consecutive segments: the boundaries between the segments of the match the
\* backtracking search finds first.  Every segment here is greedy, so that is
\* the lexicographically greatest choice of boundaries.
RECURSIVE Paths(_, _, _)
Paths(segs, s, p) ==
    IF segs = <<>> THEN {<<p>>}
    ELSE UNION {{<<p>> \o rest : rest \in Paths(Tail(segs), s, q)} :
                q \in Ends(Head(segs), s, {p})}

LexGreaterEq(a, b) ==
    \/ a = b
    \/ \E i \in DOMAIN a :
          /\ a[i] > b[i]
          /\ \A j \in 1..(i - 1) : a[j] = b[j]

\* <<>> when the pattern does not match at the start of s
MatchBounds(segs, s) ==
    LET ps == Paths(segs, s, 1)
    IN  IF ps = {} THEN <<>>
        ELSE CHOOSE a \in ps : \A b \in ps : LexGreaterEq(a, b)

\* /^\s*(int|void)\s+main\s*\(/
reMain ==
    Cat(<<Bol, Star(S), Words(<<<<"i", "n", "t">>, <<"v", "o", "i", "d">>>>), Plus(S), Lit(<<"m", "a", "i", "n">>),
          Star(S), Lit(<<"(">>)>>)

\* /^\s*(int|void|char|float|double|long|short|unsigned|signed)\s+([a-zA-Z_]\w*)\s*\(([^)]*)\)\s*\{/
\* as segments: group 1 is segment 2, group 2 segment 4, group 3 segment 6
functionPattern ==
    << Cat(<<Bol, Star(S)>>),
       Words(BasicTypes),
       Plus(S),
       Cat(<<Cls(Lower \cup Upper \cup {"_"}), Star(W)>>),
       Cat(<<Star(S), Lit(<<"(">>)>>),
       Star(NCls({")"})),
       Cat(<<Lit(<<")">>), Star(S), Lit(<<"{">>)>>) >>

Group(s, b, k) == SubSeq(s, b[k], b[k + 1] - 1)

\* lines 295-300: the last line whose trimmed text starts with #include, or -1
lastIncludeLineOf(lines) ==
    LET hits == {i \in 0..(Len(lines) - 1) : startsWith(trim(lines[i + 1]), <<"#", "i", "n", "c", "l", "u", "d", "e">>)}
    IN  IF hits = {} THEN -1 ELSE CHOOSE i \in hits : \A j \in hits : j <= i

\* the entry-point scan started at line 0 instead of after the last include
mainLineAnywhere(lines, lastIncludeLine) ==
    LET hits == {i \in 0..(Len(lines) - 1) : Test(reMain, lines[i + 1])}
    IN  IF hits = {} THEN -1 ELSE CHOOSE i \in hits : \A j \in hits : i <= j

\* lines 305-311: the first entry-point line after it, or -1
mainLineOf(lines, lastIncludeLine) ==
    LET hits == {i \in (lastIncludeLine + 1)..(Len(lines) - 1) : Test(reMain, lines[i + 1])}
    IN  IF hits = {} THEN -1 ELSE CHOOSE i \in hits : \A j \in hits : i <= j

\* line 329: `${returnType} ${functionName}(${parameters});`
prototypeOf(returnType, functionName, parameters) ==
    returnType \o <<" ">> \o functionName \o <<"(">> \o parameters \o <<")", ";">>

\* line 326 without its test
nameAcceptedAny(functionName) == TRUE

\* line 326
nameAccepted(functionName) == functionName # <<"m", "a", "i", "n">>

\* lines 319-333: the definitions found on lines i .. end, in source order.
\* The field line (the index of the matched line) is not in the source's
\* records; it is kept so that properties can name the line a prototype is for.
RECURSIVE foundFrom(_, _)
foundFrom(lines, i) ==
    IF i > Len(lines) - 1 THEN <<>>
    ELSE LET b == MatchBounds(functionPattern, lines[i + 1])
             here ==
                 IF b = <<>> THEN <<>>
                 ELSE LET returnType == Group(lines[i + 1], b, 2)
                          functionName == Group(lines[i + 1], b, 4)
                          parameters == trim(Group(lines[i + 1], b, 6))
                      IN  IF nameAccepted(functionName)
                          THEN <<[name |-> functionName, line |-> i,
                                  prototype |-> prototypeOf(returnType, functionName, parameters)]>>
                          ELSE <<>>
         IN  here \o foundFrom(lines, i + 1)

\* line 338: lines.slice(lastIncludeLine + 1, mainLine).join('\n')
prototypeAreaOf(lines, lastIncludeLine, mainLine) ==
    join(SubSeq(lines, lastIncludeLine + 2, mainLine))

\* line 340: new RegExp(`\\b${func.name}\\s*\\([^)]*\\)\\s*;`)
referencePattern(name) ==
    Cat(<<WordB, Lit(name), Star(S), Lit(<<"(">>), Star(NCls({")"})), Lit(<<")">>),
          Star(S), Lit(<<";">>)>>)

\* line 341 without the look into the declaration area
isMissingAlways(func, prototypeArea) == TRUE

\* line 341
isMissing(func, prototypeArea) == ~Test(referencePattern(func.name), prototypeArea)

\* Array.prototype.filter
RECURSIVE filterMissing(_, _)
filterMissing(fs, prototypeArea) ==
    IF fs = <<>> THEN <<>>
    ELSE (IF isMissing(Head(fs), prototypeArea) THEN <<Head(fs)>> ELSE <<>>)
         \o filterMissing(Tail(fs), prototypeArea)

\* What a pass that returns early (lines 302, 313) has computed
synthResult(lastIncludeLine, mainLine, foundFunctions, missingPrototypes) ==
    [lastIncludeLine |-> lastIncludeLine,
     mainLine |-> mainLine,
     foundFunctions |-> foundFunctions,
     missingPrototypes |-> missingPrototypes]

\* lines 335-342
synthMissing(lines, lastIncludeLine, mainLine, foundFunctions) ==
    synthResult(lastIncludeLine, mainLine, foundFunctions,
                filterMissing(foundFunctions,
                              prototypeAreaOf(lines, lastIncludeLine, mainLine)))

\* lines 313-333
synthFound(lines, lastIncludeLine, mainLine) ==
    IF mainLine = -1 THEN synthResult(lastIncludeLine, -1, <<>>, <<>>)
    ELSE synthMissing(lines, lastIncludeLine, mainLine, foundFrom(lines, mainLine + 1))

\* lines 302-311
synthMain(lines, lastIncludeLine) ==
    IF lastIncludeLine = -1 THEN synthResult(-1, -1, <<>>, <<>>)
    ELSE synthFound(lines, lastIncludeLine, mainLineOf(lines, lastIncludeLine))

\* lines 292-300
synthLines(lines) == synthMain(lines, lastIncludeLineOf(lines))

\* lines 291-342: what one pass computes from the document text
synthesize(text) == synthLines(split(text))

\* line 349: '\n' + missingPrototypes.map(f => f.prototype).join('\n') + '\n'
prototypesTextOf(missingPrototypes) ==
    <<NL>> \o join([i \in DOMAIN missingPrototypes |-> missingPrototypes[i].prototype])
           \o <<NL>>

\* the insertion put before the last include line instead of after it
insertPositionBeforeInclude(lastIncludeLine) == [line |-> lastIncludeLine, character |-> 0]

\* line 348: new vscode.Position(lastIncludeLine + 1, 0)
insertPositionOf(lastIncludeLine) == [line |-> lastIncludeLine + 1, character |-> 0]

\* The editor's validation of a position: one past the last line becomes the
\* end of the document, one past the end of a line the end of that line
validPosition(d, position) ==
    IF position.line >= Len(d)
    THEN [line |-> Len(d) - 1, character |-> Len(d[Len(d)])]
    ELSE [line |-> position.line,
          character |-> IF position.character > Len(d[position.line + 1])
                        THEN Len(d[position.line + 1]) ELSE position.character]

\* TextEditorEdit.insert applied to the document: the text goes in at the
\* position, and the line it lands in is split at the line breaks it brings
insertText(d, position, text) ==
    LET at == validPosition(d, position)
        target == d[at.line + 1]
        before == SubSeq(target, 1, at.character)
        after == SubSeq(target, at.character + 1, Len(target))
    IN  SubSeq(d, 1, at.line)
        \o split(before \o text \o after)
        \o SubSeq(d, at.line + 2, Len(d))

-----------------------------------------------------------------------------
(* addSemicolonIfNeeded (extension.ts:216-241): the synchronous decisions *)

\* line 217: lineNum < 0 || lineNum >= document.lineCount
lineInRange(d, lineNum) == lineNum >= 0 /\ lineNum < Len(d)

\* lines 226-227: document.lineAt(lineNum).text.trimEnd()
lineTextOf(d, lineNum) == trimEnd(d[lineNum + 1])

\* line 233: line.range.end, the end of the untrimmed line
lineEndOf(d, lineNum) == [line |-> lineNum, character |-> Len(d[lineNum + 1])]

\* lines 226-233 with the edit applied to the document the callback read
semicolonInserted(d, lineNum) == insertText(d, lineEndOf(d, lineNum), <<";">>)

\* lines 217-229: whether the callback goes on to insert
semicolonWanted(d, lineNum) ==
    lineInRange(d, lineNum) /\ shouldAddSemicolon(lineTextOf(d, lineNum))

\* lines 344-351 applied to the document the pass read
prototypesInserted(d, r) ==
    insertText(d, insertPositionOf(r.lastIncludeLine), prototypesTextOf(r.missingPrototypes))

-----------------------------------------------------------------------------
(* Bounds and input sets *)

MaxPad == 1        \* trailing blanks tried after a generated line
MaxLines == 4      \* lines of a document handed to the Synthesizer
MaxPasses == 2     \* Synthesizer passes in a row over one document

\* Lines for the Classifier: a prefix, a body, a suffix and trailing blanks
LinePrefixes ==
    {<<>>, <<" ", " ">>, <<"i", "f", " ">>, <<"e", "l", "s", "e", " ", "i", "f", " ">>, <<"w", "h", "i", "l", "e", " ">>, <<"f", "o", "r">>, <<"d", "o">>, <<"s", "w", "i", "t", "c", "h", " ">>,
     <<"c", "a", "s", "e", " ">>, <<"d", "e", "f", "a", "u", "l", "t">>, <<"i", "n", "t", " ">>, <<"d", "o", "u", "b", "l", "e", " ">>, <<"s", "t", "r", "u", "c", "t", " ">>, <<"t", "y", "p", "e", "d", "e", "f", " ">>,
     <<"r", "e", "t", "u", "r", "n", " ">>, <<"/", "/", " ">>, <<"/", "*", " ">>, <<"#", "d", "e", "f", "i", "n", "e", " ">>}
LineBodies ==
    {<<>>, <<"x", " ", "=", " ", "5">>, <<"(", "x", " ", "=", " ", "5", ")">>, <<"x", " ", "=", "=", " ", "5">>, <<"f", "(", "x", ")">>, <<"a", "d", "d", "(", "i", "n", "t", " ", "a", ",", " ", "i", "n", "t", " ", "b", ")">>,
     <<"a", "[", "0", "]", " ", "=", " ", "1">>, <<"*", "p", " ", "=", " ", "1">>, <<"x">>}
LineSuffixes == {<<>>, <<";">>, <<" ", "{">>, <<"}">>, <<",">>, <<":">>, <<"\\">>, <<" ", "*", "/">>}

RECURSIVE Blanks(_)
Blanks(n) == IF n = 0 THEN <<>> ELSE <<" ">> \o Blanks(n - 1)

GenLines ==
    {p \o b \o x \o Blanks(n) :
        p \in LinePrefixes, b \in LineBodies, x \in LineSuffixes, n \in 0..MaxPad}

\* A generated line alone, or as the middle line of a block comment
SemiDocs == {<<l>> : l \in GenLines} \cup {<<<<"/", "*">>, l, <<"*", "/">>>> : l \in GenLines}

\* Lines for the Synthesizer
SynthLines ==
    {<<"#", "i", "n", "c", "l", "u", "d", "e", " ", "<", "a", ">">>, <<"i", "n", "t", " ", "m", "a", "i", "n", "(", ")", " ", "{">>, <<" ", " ", "v", "o", "i", "d", " ", "m", "a", "i", "n", " ", "(">>, <<"v", "o", "i", "d", " ", "b", "(", " ", "i", "n", "t", " ", "x", " ", ")", " ", "{">>,
     <<"i", "n", "t", " ", "a", "(", ")", "{">>, <<"i", "n", "t", " ", "a", "(", ")", ";">>, <<"a", "b", "(", ")", ";">>, <<"b", " ", "(">>, <<")", ";">>}

SynthDocs == UNION {[1..n -> SynthLines] : n \in 1..MaxLines}

Quiet ==
    /\ isProcessingChange = FALSE
    /\ prototypeCheckTimer = "unset"
    /\ protoTimers = 0
    /\ activeIsDoc = TRUE
    /\ activated = TRUE
    /\ semiTimers = <<>>
    /\ resetTimers = 0
    /\ tasks = <<>>
    /\ budget = 0

NoHistory == [op |-> "none"]

-----------------------------------------------------------------------------
(* The Classifier and the Synthesizer run on their own: one call of        *)
(* addSemicolonIfNeeded or autoGeneratePrototypes taken to its end with     *)
(* nothing interleaved (the edit applied, the guard released again).        *)

InitSemi == doc \in SemiDocs /\ history = NoHistory /\ Quiet

\* addSemicolonIfNeeded(document, lineNum), lines 216-241
SemiPass(lineNum) ==
    /\ history.op = "none"
    /\ ~isProcessingChange /\ activeIsDoc
    /\ doc' = IF semicolonWanted(doc, lineNum) THEN semicolonInserted(doc, lineNum) ELSE doc
    /\ history' = [op |-> "semi", lineNum |-> lineNum, before |-> doc,
                   inserted |-> semicolonWanted(doc, lineNum)]
    /\ UNCHANGED wiring

NextSemi == \E lineNum \in -1..Len(doc) : SemiPass(lineNum)

SpecSemi == InitSemi /\ [][NextSemi]_vars

InitSynth == doc \in SynthDocs /\ history = NoHistory /\ Quiet

\* autoGeneratePrototypes(document), lines 285-355
SynthPass ==
    /\ IF history.op = "none" THEN TRUE ELSE history.passes < MaxPasses
    /\ ~isProcessingChange /\ activeIsDoc
    /\ \E r \in {synthesize(getText(doc))} :
          /\ doc' = IF r.missingPrototypes # <<>> THEN prototypesInserted(doc, r) ELSE doc
          /\ history' = [op |-> "synth", before |-> doc, result |-> r,
                         edited |-> r.missingPrototypes # <<>>,
                         passes |-> IF history.op = "none" THEN 1 ELSE history.passes + 1,
                         editedBefore |-> history.op = "synth" /\ history.edited]
    /\ UNCHANGED wiring

NextSynth == SynthPass

SpecSynth == InitSynth /\ [][NextSynth]_vars

-----------------------------------------------------------------------------
(* The event wiring: handlers, timers and async functions, one action per  *)
(* run-to-completion step of the extension host's event loop.              *)

MaxUserEvents == 3   \* user events (edits, save, open, create, ...) in a run
MaxEditLine == 1     \* the user edits lines 0 .. MaxEditLine

\* lines 192-199
initialTemplate ==
    <<"#", "i", "n", "c", "l", "u", "d", "e", " ", "<", "s", "t", "d", "i", "o", ".", "h", ">", "\n", "#", "i", "n", "c", "l", "u", "d", "e", " ", "<", "s", "t", "d", "l", "i", "b", ".", "h", ">", "\n", "\n", "\n", "i", "n", "t", " ", "m", "a", "i", "n", "(", ")", " ", "{", "\n", "\t", "\n", "\t", "r", "e", "t", "u", "r", "n", " ", "0", ";", "\n", "}">>

EmptyDoc == <<<<>>>>

\* The documents a run starts from: a new empty file, two statements, and a
\* program with an undeclared function
WiringDocs ==
    {EmptyDoc,
     <<<<"x", " ", "=", " ", "1">>, <<"y", " ", "=", " ", "2">>>>,
     <<<<"#", "i", "n", "c", "l", "u", "d", "e", " ", "<", "a", ">">>, <<"i", "n", "t", " ", "m", "a", "i", "n", "(", ")", " ", "{">>, <<"i", "n", "t", " ", "a", "(", ")", "{">>>>}

Init ==
    /\ doc \in WiringDocs
    /\ isProcessingChange = FALSE
    /\ prototypeCheckTimer = "unset"
    /\ protoTimers = 0
    /\ activeIsDoc = TRUE
    /\ activated = TRUE
    /\ semiTimers = <<>>
    /\ resetTimers = 0
    /\ tasks = <<>>
    /\ history = NoHistory
    /\ budget = MaxUserEvents

Other == [op |-> "other"]

NoPosition == [line |-> 0, character |-> 0]

\* A timer or an async function at an await.  pc is "timer" (setTimeout 100 of
\* lines 115/126), "opening" (line 181), "showing" (line 188), "edit" (an
\* editor.edit sent and not yet applied: lines 201, 232, 347), "resolve" (the
\* edit promise resolved, the rest of the function not yet run) or "reject".
Task(fn, pc) == [fn |-> fn, pc |-> pc, position |-> NoPosition, text |-> <<>>, stale |-> FALSE]
EditTask(fn, position, text) ==
    [fn |-> fn, pc |-> "edit", position |-> position, text |-> text, stale |-> FALSE]

RemoveAt(s, i) == SubSeq(s, 1, i - 1) \o SubSeq(s, i + 1, Len(s))

\* An edit is applied only to the document version it was computed for: any
\* other change to the document makes the edits still in flight resolve false
MarkStale(ts) ==
    [i \in DOMAIN ts |-> IF ts[i].pc = "edit" THEN [ts[i] EXCEPT !.stale = TRUE] ELSE ts[i]]

HasNewline(text) == \E i \in DOMAIN text : text[i] = NL
AddedLines(text) == Len(split(text)) - 1

\* Where the line a pending semicolon check is for has moved to when text is
\* inserted at position (observation only; the callback keeps lineNum)
ShiftOrigins(timers, position, text) ==
    [i \in DOMAIN timers |->
        IF \/ timers[i].origin > position.line
           \/ /\ timers[i].origin = position.line
              /\ position.character = 0
              /\ doc[position.line + 1] # <<>>
        THEN [timers[i] EXCEPT !.origin = @ + AddedLines(text)]
        ELSE timers[i]]

\* line 135 without its test of isProcessingChange
changeAcceptedAlways == activated

\* line 135 with the handler subscribed (lines 133-134, 96-104); the document is a C file
changeAccepted == activated /\ ~isProcessingChange

\* lines 146-148 without the clearTimeout
cancelsPendingNever == FALSE

\* lines 146-148 and 101-103: clearTimeout(prototypeCheckTimer) stops a timer
\* exactly when the handle is of one that has neither fired nor been cleared
cancelsPending == prototypeCheckTimer = "pending"

\* the timers left once the handle's one is cleared
afterClearTimeout == IF cancelsPending THEN protoTimers - 1 ELSE protoTimers

\* onDidChangeTextDocument handler, lines 134-152, for an event with one content change
ChangeHandler(position, text, own) ==
    LET accepted == changeAccepted
        shifted == ShiftOrigins(semiTimers, position, text)
    IN  /\ semiTimers' =
              IF accepted /\ HasNewline(text)
              THEN Append(shifted, [lineNum |-> position.line, origin |-> position.line])
              ELSE shifted
        /\ prototypeCheckTimer' = IF accepted THEN "pending" ELSE prototypeCheckTimer
        /\ protoTimers' = IF accepted THEN afterClearTimeout + 1 ELSE protoTimers
        /\ history' = [op |-> "change", own |-> own, subscribed |-> activated,
                       guard |-> isProcessingChange, accepted |-> accepted,
                       newline |-> HasNewline(text), line |-> position.line]

\* The user (or any other source than this extension) inserts text
UserChange(position, text) ==
    /\ budget > 0
    /\ budget' = budget - 1
    /\ doc' = insertText(doc, position, text)
    /\ tasks' = MarkStale(tasks)
    /\ ChangeHandler(position, text, FALSE)
    /\ UNCHANGED <<isProcessingChange, activeIsDoc, activated, resetTimers>>

EditLines == {l \in 0..MaxEditLine : lineInRange(doc, l)}

\* Enter pressed at the end or at the start of line l
UserEnter(l, atEnd) ==
    UserChange([line |-> l, character |-> IF atEnd THEN Len(doc[l + 1]) ELSE 0], <<NL>>)

\* A character typed at the end of line l
UserType(l) == UserChange(lineEndOf(doc, l), <<"x">>)

NoRequest(pass) == [pass |-> pass, request |-> FALSE, position |-> NoPosition, text |-> <<>>]

\* lines 344-350
autoGenerateRequest(r) ==
    IF r.missingPrototypes = <<>> THEN NoRequest(TRUE)
    ELSE [pass |-> TRUE, request |-> TRUE,
          position |-> insertPositionOf(r.lastIncludeLine),
          text |-> prototypesTextOf(r.missingPrototypes)]

\* lines 286-350: the synchronous part of autoGeneratePrototypes
autoGenerate ==
    IF isProcessingChange \/ ~activeIsDoc THEN NoRequest(FALSE)
    ELSE autoGenerateRequest(synthesize(getText(doc)))

\* lines 344-351: the guard is set and the edit sent
StartAutoGenerate(op, subscribed) ==
    \E g \in {autoGenerate} :
        /\ isProcessingChange' = (isProcessingChange \/ g.request)
        /\ tasks' = IF g.request
                    THEN Append(tasks, EditTask("autoGeneratePrototypes", g.position, g.text))
                    ELSE tasks
        /\ history' = [op |-> op, subscribed |-> subscribed, guard |-> isProcessingChange,
                       active |-> activeIsDoc, pass |-> g.pass, requested |-> g.request]

\* onDidSaveTextDocument handler, lines 158-163 (runDiagnostics changes no state kept here)
UserSave ==
    /\ budget > 0
    /\ budget' = budget - 1
    /\ IF activated
       THEN StartAutoGenerate("save", TRUE)
       ELSE /\ history' = [op |-> "save", subscribed |-> FALSE, guard |-> isProcessingChange,
                           active |-> activeIsDoc, pass |-> FALSE, requested |-> FALSE]
            /\ UNCHANGED <<isProcessingChange, tasks>>
    /\ UNCHANGED <<doc, prototypeCheckTimer, protoTimers, activeIsDoc, activated,
                   semiTimers, resetTimers>>

\* The oldest 1500 ms timer of lines 149-151 fires; the one the handle is of
\* is the youngest
ProtoTimerFires ==
    /\ protoTimers > 0
    /\ protoTimers' = protoTimers - 1
    /\ prototypeCheckTimer' = IF protoTimers = 1 /\ prototypeCheckTimer = "pending"
                              THEN "fired" ELSE prototypeCheckTimer
    /\ StartAutoGenerate("protoTimer", TRUE)
    /\ UNCHANGED <<doc, activeIsDoc, activated, semiTimers, resetTimers, budget>>

\* The oldest 10 ms timer of line 141 fires: addSemicolonIfNeeded, lines 216-233
SemiTimerFires ==
    /\ semiTimers # <<>>
    /\ LET t == Head(semiTimers)
           inRange == lineInRange(doc, t.lineNum)
           classified == ~isProcessingChange /\ inRange /\ activeIsDoc
           requested == classified /\ shouldAddSemicolon(lineTextOf(doc, t.lineNum))
       IN  /\ semiTimers' = Tail(semiTimers)
           /\ isProcessingChange' = (isProcessingChange \/ requested)
           /\ tasks' = IF requested
                       THEN Append(tasks, EditTask("addSemicolonIfNeeded",
                                                   lineEndOf(doc, t.lineNum), <<";">>))
                       ELSE tasks
           /\ history' = [op |-> "semiTimer", guard |-> isProcessingChange,
                          active |-> activeIsDoc, inRange |-> inRange,
                          classified |-> classified, requested |-> requested,
                          lineNum |-> t.lineNum, origin |-> t.origin]
    /\ UNCHANGED <<doc, prototypeCheckTimer, protoTimers, activeIsDoc, activated,
                   resetTimers, budget>>

\* A timer of line 209, 239 or 353 fires
ResetTimerFires ==
    /\ resetTimers > 0
    /\ resetTimers' = resetTimers - 1
    /\ isProcessingChange' = FALSE
    /\ history' = Other
    /\ UNCHANGED <<doc, prototypeCheckTimer, protoTimers, activeIsDoc, activated,
                   semiTimers, tasks, budget>>

\* onDidCreateFiles handler, lines 112-118, for the document's file (created
\* once: not again while the setup its creation started is still under way)
CreateFile ==
    /\ budget > 0 /\ activated
    /\ \A i \in DOMAIN tasks : tasks[i].fn # "setupNewCFile"
    /\ budget' = budget - 1
    /\ tasks' = Append(tasks, Task("setupNewCFile", "timer"))
    /\ history' = Other
    /\ UNCHANGED <<doc, isProcessingChange, prototypeCheckTimer, protoTimers, activeIsDoc,
                   activated, semiTimers, resetTimers>>

\* onDidOpenTextDocument handler, lines 124-128 (the document is opened once:
\* not again while the setup its opening started is still under way)
OpenDocument ==
    /\ budget > 0 /\ activated
    /\ \A i \in DOMAIN tasks : tasks[i].fn # "setupNewCFileFromDocument"
    /\ budget' = budget - 1
    /\ tasks' = IF trim(getText(doc)) = <<>>
                THEN Append(tasks, Task("setupNewCFileFromDocument", "timer"))
                ELSE tasks
    /\ history' = Other
    /\ UNCHANGED <<doc, isProcessingChange, prototypeCheckTimer, protoTimers, activeIsDoc,
                   activated, semiTimers, resetTimers>>

\* A 100 ms timer of line 115 or 126 fires: the function runs to its first await
SetupTimerFires(i) ==
    /\ tasks[i].pc = "timer"
    /\ tasks' = [tasks EXCEPT ![i].pc =
                    IF tasks[i].fn = "setupNewCFile" THEN "opening" ELSE "showing"]
    /\ history' = Other
    /\ UNCHANGED <<doc, isProcessingChange, prototypeCheckTimer, protoTimers, activeIsDoc,
                   activated, semiTimers, resetTimers, budget>>

\* openTextDocument resolves, lines 181-184
OpenResolves(i) ==
    /\ tasks[i].pc = "opening"
    /\ tasks' = IF trim(getText(doc)) = <<>>
                THEN [tasks EXCEPT ![i].pc = "showing"]
                ELSE RemoveAt(tasks, i)
    /\ history' = Other
    /\ UNCHANGED <<doc, isProcessingChange, prototypeCheckTimer, protoTimers, activeIsDoc,
                   activated, semiTimers, resetTimers, budget>>

\* showTextDocument resolves, lines 188-203: the guard is set and the template sent
ShowResolves(i) ==
    /\ tasks[i].pc = "showing"
    /\ activeIsDoc' = TRUE
    /\ isProcessingChange' = TRUE
    /\ tasks' = [tasks EXCEPT ![i] =
                    EditTask(tasks[i].fn, [line |-> 0, character |-> 0], initialTemplate)]
    /\ history' = Other
    /\ UNCHANGED <<doc, prototypeCheckTimer, protoTimers, activated, semiTimers,
                   resetTimers, budget>>

\* The editor applies an edit in flight (or refuses it, the document having
\* changed since), and the change event of an applied edit is delivered
EditApplies(i) ==
    /\ tasks[i].pc = "edit"
    /\ IF tasks[i].stale
       THEN /\ tasks' = [tasks EXCEPT ![i].pc = "resolve"]
            /\ history' = Other
            /\ UNCHANGED <<doc, semiTimers, prototypeCheckTimer, protoTimers>>
       ELSE /\ doc' = insertText(doc, tasks[i].position, tasks[i].text)
            /\ tasks' = [MarkStale(tasks) EXCEPT ![i].pc = "resolve", ![i].stale = FALSE]
            /\ ChangeHandler(validPosition(doc, tasks[i].position), tasks[i].text, TRUE)
    /\ UNCHANGED <<isProcessingChange, activeIsDoc, activated, resetTimers, budget>>

\* The awaited edit resolved: lines 205-209, 239, 353 schedule the release of the guard
EditResolves(i) ==
    /\ tasks[i].pc = "resolve"
    /\ tasks' = RemoveAt(tasks, i)
    /\ resetTimers' = resetTimers + 1
    /\ history' = Other
    /\ UNCHANGED <<doc, isProcessingChange, prototypeCheckTimer, protoTimers, activeIsDoc,
                   activated, semiTimers, budget>>

\* The awaited edit rejected (its editor is gone): the async function ends there
EditRejects(i) ==
    /\ tasks[i].pc = "reject"
    /\ tasks' = RemoveAt(tasks, i)
    /\ history' = Other
    /\ UNCHANGED <<doc, isProcessingChange, prototypeCheckTimer, protoTimers, activeIsDoc,
                   activated, semiTimers, resetTimers, budget>>

\* The user moves to another editor, or back
UserSwitchEditor ==
    /\ budget > 0
    /\ budget' = budget - 1
    /\ activeIsDoc' = ~activeIsDoc
    /\ history' = Other
    /\ UNCHANGED <<doc, isProcessingChange, prototypeCheckTimer, protoTimers, activated,
                   semiTimers, resetTimers, tasks>>

\* The user closes the document's editor: the edits in flight will reject
UserCloseEditor ==
    /\ budget > 0 /\ activeIsDoc
    /\ budget' = budget - 1
    /\ activeIsDoc' = FALSE
    /\ tasks' = [i \in DOMAIN tasks |->
                    IF tasks[i].pc = "edit" THEN [tasks[i] EXCEPT !.pc = "reject"] ELSE tasks[i]]
    /\ history' = Other
    /\ UNCHANGED <<doc, isProcessingChange, prototypeCheckTimer, protoTimers, activated,
                   semiTimers, resetTimers>>

\* deactivate, lines 96-104; the subscriptions of activate are disposed with it
Deactivate ==
    /\ budget > 0 /\ activated
    /\ budget' = budget - 1
    /\ activated' = FALSE
    /\ prototypeCheckTimer' = IF prototypeCheckTimer = "pending" THEN "cleared"
                              ELSE prototypeCheckTimer
    /\ protoTimers' = afterClearTimeout
    /\ history' = Other
    /\ UNCHANGED <<doc, isProcessingChange, activeIsDoc, semiTimers, resetTimers, tasks>>

Next ==
    \/ \E l \in EditLines, atEnd \in BOOLEAN : UserEnter(l, atEnd)
    \/ \E l \in EditLines : UserType(l)
    \/ UserSave
    \/ UserSwitchEditor
    \/ UserCloseEditor
    \/ CreateFile
    \/ OpenDocument
    \/ Deactivate
    \/ ProtoTimerFires
    \/ SemiTimerFires
    \/ ResetTimerFires
    \/ \E i \in DOMAIN tasks : SetupTimerFires(i)
    \/ \E i \in DOMAIN tasks : OpenResolves(i)
    \/ \E i \in DOMAIN tasks : ShowResolves(i)
    \/ \E i \in DOMAIN tasks : EditApplies(i)
    \/ \E i \in DOMAIN tasks : EditResolves(i)
    \/ \E i \in DOMAIN tasks : EditRejects(i)

Spec == Init /\ [][Next]_vars

\* The event loop runs every timer that is due and the continuation of every
\* settled promise; the user owes nothing.  For the three callbacks that call
\* the Classifier or the Synthesizer or apply an edit, weak fairness is
\* written with the enabling condition spelled out: ProtoTimerFires is enabled
\* exactly when a 1500 ms timer is pending, SemiTimerFires when a 10 ms timer
\* is, EditApplies(i) when task i is an edit in flight, and each of them
\* changes the state.
ProtoTimerDue == protoTimers > 0
SemiTimerDue == semiTimers # <<>>
EditDue == \E i \in DOMAIN tasks : tasks[i].pc = "edit"

Scheduling ==
    /\ WF_vars(ResetTimerFires)
    /\ WF_vars(\E i \in DOMAIN tasks : SetupTimerFires(i))
    /\ WF_vars(\E i \in DOMAIN tasks : OpenResolves(i))
    /\ WF_vars(\E i \in DOMAIN tasks : ShowResolves(i))
    /\ WF_vars(\E i \in DOMAIN tasks : EditResolves(i))
    /\ WF_vars(\E i \in DOMAIN tasks : EditRejects(i))
    /\ ([]<>~ProtoTimerDue \/ []<><<ProtoTimerFires>>_vars)
    /\ ([]<>~SemiTimerDue \/ []<><<SemiTimerFires>>_vars)
    /\ ([]<>~EditDue \/ []<><<\E i \in DOMAIN tasks : EditApplies(i)>>_vars)

FairSpec == Spec /\ Scheduling

-----------------------------------------------------------------------------
(* Properties of the Classifier (under SpecSemi) *)

IsBlank(s) == trim(s) = <<>>

\* kw at the start of t, as a whole word
BeginsWithWord(t, kw) == startsWith(t, kw) /\ ~IsWordAt(t, Len(kw) + 1)

\* The exclusion rules as the specification words them, on the trimmed text
EndsStructural(t) == t # <<>> /\ t[Len(t)] \in {"{", "}", ",", ":", "\\"}
IsDirectiveOrComment(t) ==
    startsWith(t, <<"#">>) \/ startsWith(t, <<"/", "/">>) \/ startsWith(t, <<"/", "*">>) \/ endsWith(t, <<"*", "/">>)
BeginsWithControl(t) ==
    \E kw \in {<<"i", "f">>, <<"e", "l", "s", "e">>, <<"w", "h", "i", "l", "e">>, <<"f", "o", "r">>, <<"d", "o">>, <<"s", "w", "i", "t", "c", "h">>, <<"c", "a", "s", "e">>, <<"d", "e", "f", "a", "u", "l", "t">>} :
        BeginsWithWord(t, kw)
IsBareSignature(t) == Test(reFunctionSig, t)
BeginsWithTypeDef(t) ==
    \E kw \in {<<"s", "t", "r", "u", "c", "t">>, <<"u", "n", "i", "o", "n">>, <<"e", "n", "u", "m">>, <<"t", "y", "p", "e", "d", "e", "f">>} : BeginsWithWord(t, kw)
IsLoneBrace(t) == t \in {<<"{">>, <<"}">>}

Excluded(t) ==
    \/ EndsStructural(t)
    \/ IsDirectiveOrComment(t)
    \/ BeginsWithControl(t)
    \/ IsBareSignature(t)
    \/ BeginsWithTypeDef(t)
    \/ IsLoneBrace(t)

SemiDone == history.op = "semi" /\ lineInRange(history.before, history.lineNum)
SemiLine == history.before[history.lineNum + 1]

\* C2: the Classifier never double-inserts.  A line whose trimmed text is
\* empty or ends with ';' gets no ';'; and when a ';' was inserted the line is
\* the old line with ';' at its very end (after any trailing blanks), and the
\* Classifier returns false on it, so a second call inserts nothing.
C2_NeverDoubleInserts ==
    SemiDone =>
        /\ (IsBlank(SemiLine) \/ endsWith(trim(SemiLine), <<";">>)) => ~history.inserted
        /\ history.inserted =>
              /\ doc[history.lineNum + 1] = SemiLine \o <<";">>
              /\ ~shouldAddSemicolon(lineTextOf(doc, history.lineNum))
              /\ ~semicolonWanted(doc, history.lineNum)

\* a ';' was inserted after trailing blanks
C2_Witness ==
    SemiDone /\ history.inserted /\ SemiLine # trimEnd(SemiLine)

\* C3: exclusion rules take priority over the needs-terminator shapes: a line
\* whose trimmed text satisfies an exclusion rule gets no ';', also when it
\* matches a needs-terminator shape.
C3_ExclusionFirst ==
    (SemiDone /\ Excluded(trim(SemiLine))) =>
        ~history.inserted /\ ~shouldAddSemicolon(SemiLine)

\* 'if (x = 5)': a control line that is also shaped like an assignment and a call
C3_Witness ==
    /\ SemiDone
    /\ trim(SemiLine) = <<"i", "f", " ", "(", "x", " ", "=", " ", "5", ")">>
    /\ Excluded(trim(SemiLine))
    /\ MatchesNeedsPattern(trim(SemiLine))
    /\ ~history.inserted

Contains(s, w) == \E p \in 1..(Len(s) + 1) : IsPrefixAt(w, s, p)

\* Line i (zero-based) of d lies inside a block comment opened on an earlier
\* line and not closed before the end of line i
InsideBlockComment(d, i) ==
    /\ ~Contains(d[i + 1], <<"*", "/">>)
    /\ \E j \in 0..(i - 1) :
          /\ Contains(d[j + 1], <<"/", "*">>)
          /\ \A k \in j..(i - 1) : ~Contains(d[k + 1], <<"*", "/">>)

IsCommentLine(d, i) ==
    \/ startsWith(trim(d[i + 1]), <<"/", "/">>)
    \/ startsWith(trim(d[i + 1]), <<"/", "*">>)
    \/ endsWith(trim(d[i + 1]), <<"*", "/">>)
    \/ InsideBlockComment(d, i)

\* C7: auto-semicolon insertion skips comments: no ';' goes onto a line that
\* is comment text, the interior lines of a block comment included.
C7_SkipsComments ==
    (SemiDone /\ IsCommentLine(history.before, history.lineNum)) => ~history.inserted

-----------------------------------------------------------------------------
(* Properties of the Synthesizer (under SpecSynth) *)

SynthDone == history.op = "synth"

IsIncludeLine(l) == startsWith(trim(l), <<"#", "i", "n", "c", "l", "u", "d", "e">>)
IsEntryLine(l) == Test(reMain, l)
IsDefinitionLine(l) == MatchBounds(functionPattern, l) # <<>>
DefinedName(l) == Group(l, MatchBounds(functionPattern, l), 4)
DefinedPrototype(l) ==
    LET b == MatchBounds(functionPattern, l)
    IN  Group(l, b, 2) \o <<" ">> \o Group(l, b, 4) \o <<"(">> \o trim(Group(l, b, 6)) \o <<")", ";">>

Prototypes(r) == [k \in DOMAIN r.missingPrototypes |-> r.missingPrototypes[k].prototype]

\* C1: Synthesizer idempotence.  When a pass inserts, the document becomes the
\* old one with an empty line and the prototypes put in right after the last
\* #include line; a pass over that document finds nothing missing and
\* inserts nothing.
C1_Idempotent ==
    SynthDone =>
        /\ history.edited =>
              /\ doc = SubSeq(history.before, 1, history.result.lastIncludeLine + 1)
                       \o <<<<>>>> \o Prototypes(history.result)
                       \o SubSeq(history.before, history.result.lastIncludeLine + 2,
                                 Len(history.before))
              /\ synthesize(getText(doc)).missingPrototypes = <<>>
        /\ history.editedBefore => ~history.edited /\ doc = history.before

\* a pass that inserted, followed by a second pass
C1_Witness == SynthDone /\ history.passes = 2 /\ history.editedBefore

\* C4: every prototype produced is for a definition line matched after the
\* entry-point line, and none is for a function named main.
C4_OnlyFoundNeverMain ==
    SynthDone =>
        \A k \in DOMAIN history.result.missingPrototypes :
            LET p == history.result.missingPrototypes[k]
            IN  /\ history.result.mainLine >= 0
                /\ p.line > history.result.mainLine
                /\ p.line < Len(history.before)
                /\ IsDefinitionLine(history.before[p.line + 1])
                /\ p.prototype = DefinedPrototype(history.before[p.line + 1])
                /\ p.name # <<"m", "a", "i", "n">>
                /\ \A ty \in {BasicTypes[i] : i \in DOMAIN BasicTypes} :
                      ~startsWith(p.prototype, ty \o <<" ", "m", "a", "i", "n", "(">>)

\* a definition-shaped line named main after the entry point, and a prototype produced
C4_Witness ==
    /\ SynthDone
    /\ history.result.missingPrototypes # <<>>
    /\ \E i \in (history.result.mainLine + 1)..(Len(history.before) - 1) :
          /\ IsDefinitionLine(history.before[i + 1])
          /\ DefinedName(history.before[i + 1]) = <<"m", "a", "i", "n">>

NoInclude(d) == \A i \in DOMAIN d : ~IsIncludeLine(d[i])
\* every entry-point line has an include line after it
NoEntryAfterLastInclude(d) ==
    \A i \in DOMAIN d : IsEntryLine(d[i]) => \E j \in DOMAIN d : j > i /\ IsIncludeLine(d[j])

\* C5: with no #include line, or no entry-point line after the last #include
\* line, a pass produces nothing and leaves the document as it was.
C5_NoAnchorNoEdit ==
    (SynthDone /\ (NoInclude(history.before) \/ NoEntryAfterLastInclude(history.before))) =>
        /\ history.result.missingPrototypes = <<>>
        /\ ~history.edited
        /\ doc = history.before

\* main only before the last include, a definition after it
C5_Witness ==
    /\ SynthDone
    /\ NoEntryAfterLastInclude(history.before)
    /\ \E i, j, k \in DOMAIN history.before :
          /\ i < j /\ j < k
          /\ IsEntryLine(history.before[i])
          /\ IsIncludeLine(history.before[j])
          /\ IsDefinitionLine(history.before[k])
          /\ DefinedName(history.before[k]) # <<"m", "a", "i", "n">>

\* the lines strictly between the last include line and the entry-point line
DeclarationArea(d, r) ==
    join([i \in 1..(r.mainLine - r.lastIncludeLine - 1) |-> d[r.lastIncludeLine + 1 + i]])

HasReference(name, area) == Test(referencePattern(name), area)

\* C6: the result lists, in file order, exactly one '<type> <name>(<params>);'
\* for each definition found after the entry point whose name has no
\* 'name ( ... ) ;' reference in the declaration area, and nothing else.
C6_OrderAndForm ==
    (SynthDone /\ history.result.mainLine >= 0) =>
        LET r == history.result
            d == history.before
            out == r.missingPrototypes
            area == DeclarationArea(d, r)
            wanted(i) ==
                /\ IsDefinitionLine(d[i + 1])
                /\ DefinedName(d[i + 1]) # <<"m", "a", "i", "n">>
                /\ ~HasReference(DefinedName(d[i + 1]), area)
        IN  /\ \A j, k \in DOMAIN out : j < k => out[j].line < out[k].line
            /\ \A k \in DOMAIN out :
                  /\ out[k].line \in (r.mainLine + 1)..(Len(d) - 1)
                  /\ out[k].prototype = DefinedPrototype(d[out[k].line + 1])
            /\ \A i \in (r.mainLine + 1)..(Len(d) - 1) :
                  Cardinality({k \in DOMAIN out : out[k].line = i}) = IF wanted(i) THEN 1 ELSE 0

\* b defined before a, neither declared: b's prototype comes first
C6_Witness ==
    /\ SynthDone
    /\ Prototypes(history.result) = <<<<"v", "o", "i", "d", " ", "b", "(", "i", "n", "t", " ", "x", ")", ";">>, <<"i", "n", "t", " ", "a", "(", ")", ";">>>>

-----------------------------------------------------------------------------
(* Properties of the event wiring (under Spec) *)

UserChanged == history.op = "change" /\ ~history.own /\ history.subscribed

\* a semicolon check is pending for the line the last change started on
SemiCheckPending ==
    \E i \in DOMAIN semiTimers : semiTimers[i].lineNum = history.line

\* C8, as the specification words it: no trigger is dropped.  Every change
\* to the C document leaves a prototype check pending and, when its text has a newline, a
\* semicolon check for the line it started on; every save and every
\* prototype-timer callback runs a Synthesizer pass; every semicolon callback
\* calls the Classifier.
C8_NoTriggerDropped ==
    /\ UserChanged =>
          /\ prototypeCheckTimer = "pending"
          /\ history.newline => SemiCheckPending
    /\ (history.op = "save" /\ history.subscribed) => history.pass
    /\ history.op = "protoTimer" => history.pass
    /\ history.op = "semiTimer" => history.classified

\* C8, with the guards of the code: triggers are dropped only by them.  A
\* change to the C document arriving while isProcessingChange is false
\* schedules the prototype check and, for a text with a newline, a semicolon
\* check for the line it started on; one arriving while it is true schedules
\* nothing.  The save handler and the prototype-timer callback run a
\* Synthesizer pass exactly when isProcessingChange is false and the document
\* is the active editor's; the semicolon callback calls the Classifier exactly
\* when, besides, its line number is still in range.
C8_TriggersDroppedOnlyByGuards ==
    /\ (history.op = "change" /\ history.subscribed) =>
          /\ history.accepted <=> ~history.guard
          /\ history.accepted =>
                /\ prototypeCheckTimer = "pending"
                /\ history.newline =>
                      /\ semiTimers # <<>>
                      /\ semiTimers[Len(semiTimers)].lineNum = history.line
    /\ (history.op = "save" /\ history.subscribed) =>
          (history.pass <=> (~history.guard /\ history.active))
    /\ history.op = "protoTimer" =>
          (history.pass <=> (~history.guard /\ history.active))
    /\ history.op = "semiTimer" =>
          (history.classified <=> (~history.guard /\ history.active /\ history.inRange))

\* a user change with a newline arrived while the guard was set and scheduled nothing
C8_Witness ==
    /\ UserChanged /\ history.newline /\ history.guard
    /\ ~history.accepted
    /\ prototypeCheckTimer # "pending"
    /\ semiTimers = <<>>

\* C9: the ';' goes to the originating line only.  When the delayed callback
\* decides to insert, the line it inserts at is the line the user ended,
\* wherever further edits have moved that line in the meantime.
C9_OriginatingLineOnly ==
    (history.op = "semiTimer" /\ history.requested) => history.lineNum = history.origin

EditsInFlight == {i \in DOMAIN tasks : tasks[i].pc = "edit"}

\* C10: the re-entry guard.  While an edit of the extension is in flight
\* isProcessingChange is true, no second edit of the extension is in flight,
\* and the change event of the extension's own edit schedules nothing.
C10_ReentryGuard ==
    /\ EditsInFlight # {} => isProcessingChange
    /\ Cardinality(EditsInFlight) <= 1
    /\ (history.op = "change" /\ history.own) => ~history.accepted

\* the state of the debounce at every moment: at most one prototype-check
\* timer is pending; an accepted change leaves exactly one, the one it set; a
\* timer-driven call of autoGeneratePrototypes leaves none, so that a burst of
\* accepted changes gets one call and no second; deactivate leaves none
DebounceState ==
    /\ protoTimers <= 1
    /\ (history.op = "change" /\ history.accepted) =>
          (protoTimers = 1 /\ prototypeCheckTimer = "pending")
    /\ history.op = "protoTimer" => protoTimers = 0
    /\ ~activated => protoTimers = 0

\* C11: debounce as cancel-and-reschedule.  At most one prototype-check timer
\* is pending at every moment, each accepted change cancels the pending one
\* and sets a new one, the burst's one timer-driven call leaves none pending,
\* deactivate leaves none pending, and a pending timer does end in its call
\* (or is cleared by a later change's reschedule that fires, or by deactivate).
C11_Debounce ==
    /\ []DebounceState
    /\ (protoTimers = 1) ~> (protoTimers = 0)

\* a burst of two accepted changes has had its one timer-driven call
C11_Witness ==
    /\ history.op = "protoTimer"
    /\ budget <= MaxUserEvents - 2
    /\ prototypeCheckTimer = "fired"
    /\ protoTimers = 0
    /\ activated

\* C12: the guard flag is always released.  Whenever isProcessingChange is
\* true it becomes false again later, whatever becomes of the awaited edit, so
\* that the change handling is never disabled for good.
C12_GuardReleased == isProcessingChange ~> ~isProcessingChange

=============================================================================
